---- MODULE Spec2Model ----
(***************************************************************************)
(* A model of the gallery application (main/views.py, main/models.py,      *)
(* main/forms.py, main/urls.py): the persistent store (Gallery and         *)
(* MediaItem rows, stored file contents) and the HTTP views gallery_view,  *)
(* media_delete, qrcode_image and qrcode_download.                         *)
(*                                                                         *)
(* Strings that the code trims, splits or tests by prefix are modelled as  *)
(* sequences of tokens, so that strip(), startswith() and guess_type()     *)
(* are computed and not assumed.                                           *)
(***************************************************************************)
EXTENDS Integers, Sequences, FiniteSets, TLC

VARIABLES
    gallery,     \* Gallery rows: uuid -> [upload_pin, first_opened_at]
    media,       \* MediaItem rows: a set of records
    storage,     \* ids of the MediaItems whose file content is in the storage
    next_id,     \* the MediaItem table's auto-increment counter
    now,         \* the clock read by timezone.now(); one tick per request
    rq           \* per worker: the request in hand, its locals, its response

vars == <<gallery, media, storage, next_id, now, rq>>

\* ------------------------------------------------------------------ bounds

\* The longest file list a request submits.
MaxBatch == 3
\* The clock stops here: a behaviour handles at most MaxClock - 1 requests.
MaxClock == 3

\* ------------------------------------------------------- program constants

\* views.py:44  getattr(settings, "GALLERY_MAX_UPLOAD_MB", 100)
GALLERY_MAX_UPLOAD_MB == 100
\* views.py:68  remaining = max(0, 5 - existing)
MediaLimit == 5
\* forms.py:6   pin = forms.CharField(max_length=12, ...)
PinMaxLength == 12
\* forms.py:5   caption = forms.CharField(max_length=200, ...)
CaptionMaxLength == 200
\* forms.py:7   sort_order = forms.IntegerField(min_value=0, ...)
SortOrderMinValue == 0

\* views.py:45
max_bytes == GALLERY_MAX_UPLOAD_MB * 1024 * 1024
\* views.py:46
allowed_prefixes == { <<"image", "/">>, <<"video", "/">> }

\* None where the code holds an optional text or number: the empty sequence
\* stands for None, <<v>> for the value v.
None == <<>>
Some(v) == <<v>>

\* mimetypes.guess_type finds nothing.
NoGuess == <<"None">>

\* ------------------------------------------------------------ pure helpers

Max(a, b) == IF a >= b THEN a ELSE b

\* str.strip(): leading and trailing white space removed.
RECURSIVE LStrip(_)
LStrip(s) ==
    IF s # <<>> /\ Head(s) = " " THEN LStrip(Tail(s)) ELSE s

RECURSIVE RStrip(_)
RStrip(s) ==
    IF s # <<>> /\ s[Len(s)] = " " THEN RStrip(SubSeq(s, 1, Len(s) - 1)) ELSE s

Strip(s) == RStrip(LStrip(s))

\* str.startswith(prefix)
StartsWith(s, prefix) ==
    /\ Len(s) >= Len(prefix)
    /\ SubSeq(s, 1, Len(prefix)) = prefix

\* str.startswith(tuple of prefixes)
StartsWithAny(s, prefixes) == \E q \in prefixes : StartsWith(s, q)

\* (mutant) the slice stops one element early
TakeOneLess(s, n) == SubSeq(s, 1, IF n - 1 < Len(s) THEN n - 1 ELSE Len(s))

\* list[:n]
Take(s, n) == SubSeq(s, 1, IF n < Len(s) THEN n ELSE Len(s))

\* mimetypes.guess_type(name)[0]: the type of the file name's extension, the
\* text after its last dot; None when there is none or it is not known.
guess_type(name) ==
    IF Len(name) >= 3 /\ name[Len(name) - 1] = "."
    THEN CASE name[Len(name)] = "jpg" -> <<"image", "/", "jpeg">>
           [] name[Len(name)] = "png" -> <<"image", "/", "png">>
           [] name[Len(name)] = "mp4" -> <<"video", "/", "mp4">>
           [] name[Len(name)] = "txt" -> <<"text", "/", "plain">>
           [] OTHER -> NoGuess
    ELSE NoGuess

\* ------------------------------------------------------------------ store

\* The galleries of the store, and an identifier that names none of them.
Galleries == {"g1", "g2"}
UnknownUuid == "gx"
Uuids == Galleries \cup {UnknownUuid}

\* models.py: media_upload_path(instance, filename)
media_upload_path(g, filename) == <<"uploads", "/", g, "/">> \o filename

\* gallery.media: the MediaItems of a gallery; gallery.media.count()
MediaOf(g) == { m \in media : m.gallery = g }
MediaCount(g) == Cardinality(MediaOf(g))

\* MediaItem.save(): mime_type, file_size and kind as derived at save time
\* for an item created with kind "auto" and no mime_type.
SaveMimeType(f) ==
    LET guessed == guess_type(f.name)
    IN  IF guessed = NoGuess THEN <<>> ELSE guessed

SaveFileSize(f) == f.size

SaveKind(kind, mime_type) ==
    IF kind = "auto" /\ mime_type # <<>>
    THEN IF StartsWith(mime_type, <<"image", "/">>) THEN "image"
         ELSE IF StartsWith(mime_type, <<"video", "/">>) THEN "video"
         ELSE kind
    ELSE kind

\* MediaItem.objects.create(gallery=, file=, caption=, sort_order=)
NewMediaItem(id, g, f, caption, sort_order) ==
    [ id         |-> id,
      gallery    |-> g,
      file       |-> media_upload_path(g, f.name),
      kind       |-> SaveKind("auto", SaveMimeType(f)),
      caption    |-> caption,
      sort_order |-> sort_order,
      mime_type  |-> SaveMimeType(f),
      file_size  |-> SaveFileSize(f) ]

\* gallery.media.all().order_by("sort_order", "uploaded_at") as the ids in
\* order; the auto-increment id stands for the upload time.
RECURSIVE OrderedIds(_)
OrderedIds(items) ==
    IF items = {} THEN <<>>
    ELSE LET first == CHOOSE m \in items : \A o \in items :
                          \/ m.sort_order < o.sort_order
                          \/ (m.sort_order = o.sort_order /\ m.id <= o.id)
         IN  <<first.id>> \o OrderedIds(items \ {first})

\* --------------------------------------------------------------- requests

\* An uploaded file: request.FILES entry with its name (tokens), declared
\* content type (tokens) and size in bytes.
UploadedFile(name, content_type, size) ==
    [ name |-> name, content_type |-> content_type, size |-> size ]

\* A request: the view the URL routes to, the method, the path arguments and
\* the POST fields. sort_order is the submitted number, None if left empty.
Request(view, method, uuid, item_id, pin, caption, sort_order, files) ==
    [ view |-> view, method |-> method, uuid |-> uuid, item_id |-> item_id,
      pin |-> pin, caption |-> caption, sort_order |-> sort_order,
      files |-> files ]

NoRequest == Request("none", "GET", UnknownUuid, 0, <<>>, <<>>, None, <<>>)

\* A worker with no request in hand.
Idle ==
    [ pc |-> "idle", req |-> NoRequest, status |-> "none", msgs |-> <<>>,
      body |-> <<>>, existing |-> 0, remaining |-> 0, files |-> <<>>,
      base_order |-> 0, caption |-> <<>>, created |-> <<>>, errors |-> 0 ]

\* A finished request: the response and the messages queued for the user.
Done(req, status, msgs, body) ==
    [ Idle EXCEPT !.pc = "done", !.req = req, !.status = status,
                  !.msgs = msgs, !.body = body ]

\* Http404
NotFound(req) == Done(req, "404", <<>>, <<>>)

\* forms.py MultiUploadForm: CharField strips its value, then checks
\* max_length; IntegerField(required=False, min_value=0).
CleanedPin(req) == Strip(req.pin)
CleanedCaption(req) == Strip(req.caption)
CleanedSortOrder(req) == req.sort_order

FormIsValid(req) ==
    /\ Len(CleanedPin(req)) <= PinMaxLength
    /\ Len(CleanedCaption(req)) <= CaptionMaxLength
    /\ (req.sort_order # None => req.sort_order[1] >= SortOrderMinValue)

\* views.py:51  want_pin = gallery.upload_pin.strip() if gallery.upload_pin else ""
WantPin(g) ==
    IF gallery[g].upload_pin # <<>> THEN Strip(gallery[g].upload_pin) ELSE <<>>

\* views.py:52  got_pin = form.cleaned_data.get("pin", "").strip()
GotPin(req) == Strip(CleanedPin(req))

\* (mutant) the PIN is compared only when the client submitted one
PinRejectedIfGiven(g, req) ==
    WantPin(g) # <<>> /\ GotPin(req) # <<>> /\ WantPin(g) # GotPin(req)

\* views.py:53  if want_pin and want_pin != got_pin
PinRejected(g, req) == WantPin(g) # <<>> /\ WantPin(g) # GotPin(req)

\* (mutant) the limit is taken one too high
RemainingOneMore(existing) == Max(0, MediaLimit + 1 - existing)

\* views.py:68  remaining = max(0, 5 - existing)
Remaining(existing) == Max(0, MediaLimit - existing)

\* (mutant) base_order = start_order or existing
BaseOrderIfTruthy(start_order, existing) ==
    IF start_order # None /\ start_order[1] # 0 THEN start_order[1] ELSE existing

\* views.py:80  base_order = start_order if isinstance(start_order, int) else existing
BaseOrder(start_order, existing) ==
    IF start_order # None THEN start_order[1] ELSE existing

\* (mutant) a file of exactly the maximum size is refused
SizeBelowMax(f) == f.size < max_bytes

\* views.py:83-85  the per-file validations
SizeOk(f) == f.size <= max_bytes
TypeOk(f) == StartsWithAny(f.content_type, allowed_prefixes)
FileOk(f) == SizeOk(f) /\ TypeOk(f)

\* views.py:122  need_pin
NeedPin(g) ==
    IF gallery[g].upload_pin # <<>> THEN Strip(gallery[g].upload_pin) # <<>>
    ELSE FALSE

\* views.py:117-125  render(request, template, context)
Render(req, g) ==
    Done(req, "render", <<>>, <<"media_items", OrderedIds(MediaOf(g)),
                               "need_pin", NeedPin(g)>>)

\* redirect("gallery_view", uuid) with the messages queued so far
Redirect(req, msgs) == Done(req, "redirect", msgs, <<>>)

\* ---------------------------------------------------------- gallery_view

\* views.py:81-103  the loop over the truncated file list, from position idx
\* (1-based here, idx - 1 in the code): a file failing a validation queues a
\* warning and counts as an error, any other becomes a MediaItem with the
\* next id of the table.
RECURSIVE UploadLoop(_, _, _, _, _, _)
UploadLoop(files, idx, g, caption, base_order, acc) ==
    IF idx > Len(files) THEN acc
    ELSE LET f == files[idx]
         IN  IF ~SizeOk(f)
             THEN UploadLoop(files, idx + 1, g, caption, base_order,
                      [acc EXCEPT !.msgs = Append(@, <<"warning", "size", f.name>>),
                                  !.errors = @ + 1])
             ELSE IF ~TypeOk(f)
             THEN UploadLoop(files, idx + 1, g, caption, base_order,
                      [acc EXCEPT !.msgs = Append(@, <<"warning", "type", f.name>>),
                                  !.errors = @ + 1])
             ELSE UploadLoop(files, idx + 1, g, caption, base_order,
                      [acc EXCEPT !.items = Append(@,
                                      NewMediaItem(acc.next_id, g, f, caption,
                                                   base_order + (idx - 1))),
                                  !.next_id = @ + 1])

\* (mutant) success is reported only for a batch without skipped files
BatchMessagesIfClean(created, errors, submitted, remaining) ==
    (IF created > 0 /\ errors = 0
     THEN <<<<"success", "uploaded", created>>>>
          \o (IF submitted > remaining THEN <<<<"warning", "limit">>>> ELSE <<>>)
     ELSE <<>>)
    \o (IF errors > 0 /\ created = 0 THEN <<<<"error", "none_uploaded">>>> ELSE <<>>)

\* views.py:105-110  the batch-level messages
BatchMessages(created, errors, submitted, remaining) ==
    (IF created > 0
     THEN <<<<"success", "uploaded", created>>>>
          \o (IF submitted > remaining THEN <<<<"warning", "limit">>>> ELSE <<>>)
     ELSE <<>>)
    \o (IF errors > 0 /\ created = 0 THEN <<<<"error", "none_uploaded">>>> ELSE <<>>)

\* (mutant) every visit stamps the gallery again
StampEveryVisit(g) == [gallery EXCEPT ![g].first_opened_at = Some(now)]

\* (mutant) the stamp is written to every gallery not opened yet
StampAllUnopened(g) ==
    [h \in Galleries |->
        IF gallery[h].first_opened_at = None
        THEN [gallery[h] EXCEPT !.first_opened_at = Some(now)]
        ELSE gallery[h]]

\* views.py:39-41  the first opening is stamped once
StampFirstOpened(g) ==
    IF gallery[g].first_opened_at = None
    THEN [gallery EXCEPT ![g].first_opened_at = Some(now)]
    ELSE gallery

\* views.py:48-80  a POST up to the loop: the response that ends the request,
\* or the locals the loop starts with.
PostOutcome(req, g) ==
    LET existing  == MediaCount(g)
        remaining == Remaining(existing)
    IN  IF ~FormIsValid(req) THEN Render(req, g)
        ELSE IF PinRejected(g, req)
             THEN Redirect(req, <<<<"error", "pin">>>>)
        ELSE IF req.files = <<>>
             THEN Redirect(req, <<<<"error", "no_files">>>>)
        ELSE IF remaining <= 0
             THEN Redirect(req, <<<<"error", "limit">>>>)
        ELSE [ Idle EXCEPT !.pc = "loop", !.req = req,
                           !.existing = existing, !.remaining = remaining,
                           !.files = Take(req.files, remaining),
                           !.base_order = BaseOrder(CleanedSortOrder(req), existing),
                           !.caption = Strip(CleanedCaption(req)) ]

\* views.py:35-80  gallery_view from the lookup of the gallery to the start of
\* the loop over the files.
gallery_view(p, req) ==
    /\ req.view = "gallery_view"
    /\ rq[p].pc # "loop"
    /\ now < MaxClock
    /\ now' = now + 1
    /\ UNCHANGED <<media, storage, next_id>>
    /\ IF req.uuid \notin Galleries
       THEN /\ rq' = [rq EXCEPT ![p] = NotFound(req)]
            /\ UNCHANGED gallery
       ELSE /\ gallery' = StampFirstOpened(req.uuid)
            /\ rq' = [rq EXCEPT ![p] =
                        IF req.method = "POST" THEN PostOutcome(req, req.uuid)
                        ELSE Render(req, req.uuid)]

\* views.py:81-111  the loop, the batch-level messages and the redirect.
gallery_view_upload(p) ==
    /\ rq[p].pc = "loop"
    /\ LET r   == rq[p]
           out == UploadLoop(r.files, 1, r.req.uuid, r.caption, r.base_order,
                      [items |-> <<>>, msgs |-> <<>>, errors |-> 0,
                       next_id |-> next_id])
           ids == [i \in 1..Len(out.items) |-> out.items[i].id]
       IN  /\ media' = media \cup { out.items[i] : i \in 1..Len(out.items) }
           /\ storage' = storage \cup { ids[i] : i \in 1..Len(ids) }
           /\ next_id' = out.next_id
           /\ rq' = [rq EXCEPT ![p] =
                       [r EXCEPT !.pc = "done", !.status = "redirect",
                                 !.created = ids, !.errors = out.errors,
                                 !.msgs = out.msgs \o
                                     BatchMessages(Len(ids), out.errors,
                                                   Len(r.req.files), r.remaining)]]
    /\ UNCHANGED <<gallery, now>>

\* ---------------------------------------------------------- media_delete

\* (mutant) the item is looked up by its id alone
FoundItemsById(req) == { m \in media : m.id = req.item_id }

\* views.py:133  get_object_or_404(MediaItem, id=item_id, gallery=gallery)
FoundItems(req) ==
    { m \in media : m.id = req.item_id /\ m.gallery = req.uuid }

\* views.py:128-143  the stored file is removed unless the storage fails
\* (file_removed), and the record is deleted either way.
media_delete(p, req) ==
    /\ req.view = "media_delete"
    /\ rq[p].pc # "loop"
    /\ now < MaxClock
    /\ now' = now + 1
    /\ UNCHANGED <<gallery, next_id>>
    /\ LET found == FoundItems(req)
       IN  IF req.method # "POST" \/ req.uuid \notin Galleries \/ found = {}
           THEN /\ rq' = [rq EXCEPT ![p] = NotFound(req)]
                /\ UNCHANGED <<media, storage>>
           ELSE /\ \E file_removed \in BOOLEAN :
                     storage' = IF file_removed THEN storage \ {req.item_id}
                                ELSE storage
                /\ media' = media \ found
                /\ rq' = [rq EXCEPT ![p] =
                            Redirect(req, <<<<"success", "deleted">>>>)]

\* ------------------------------------------------------------- QR images

\* models.py:60-62  Gallery.public_url_slug
public_url_slug(g) == g

\* models.py:12-14  generate_token_hex: the default token of a new QRTag is
\* uuid4().hex, a fresh value that is the identifier of no gallery.
generate_token_hex(n) == IF n = 1 THEN "t1" ELSE "t2"

\* models.py:65-83  the QRTag rows: one tag per gallery, each with the token
\* its default gave it.
QRTags ==
    { [gallery |-> "g1", token |-> generate_token_hex(1)],
      [gallery |-> "g2", token |-> generate_token_hex(2)] }

\* admin.py:137-148  QRTagAdmin.qr_preview: the QR code of the public URL of
\* the tag's gallery, and a download link that carries the tag's token.
qr_preview(tag) ==
    [ url  |-> <<"/g/", public_url_slug(tag.gallery)>>,
      href |-> <<"/qr/", tag.token, "/download/">> ]

\* views.py:14-20  qrcode_image, and 22-31 qrcode_download: the PNG of the QR
\* code of the gallery's public URL; the download names the file.
QrResponse(req, attachment) ==
    IF req.uuid \notin Galleries THEN NotFound(req)
    ELSE Done(req, "png", <<>>,
              <<"url", <<"/g/", public_url_slug(req.uuid)>>,
                "attachment", attachment>>)

qrcode_image(p, req) ==
    /\ req.view = "qrcode_image"
    /\ rq[p].pc # "loop"
    /\ now < MaxClock
    /\ now' = now + 1
    /\ rq' = [rq EXCEPT ![p] = QrResponse(req, <<>>)]
    /\ UNCHANGED <<gallery, media, storage, next_id>>

qrcode_download(p, req) ==
    /\ req.view = "qrcode_download"
    /\ rq[p].pc # "loop"
    /\ now < MaxClock
    /\ now' = now + 1
    /\ rq' = [rq EXCEPT ![p] = QrResponse(req, <<"qrcode_", req.uuid, ".png">>)]
    /\ UNCHANGED <<gallery, media, storage, next_id>>

\* ------------------------------------------------------------ the inputs

\* Files a client uploads: a photo, a video of exactly the maximum size, a
\* photo sent under a name without extension, a photo over the maximum size
\* and a text file.
ImageFile == UploadedFile(<<"a", ".", "jpg">>, <<"image", "/", "jpeg">>, 1)
VideoFile == UploadedFile(<<"b", ".", "mp4">>, <<"video", "/", "mp4">>, max_bytes)
BareFile  == UploadedFile(<<"c">>, <<"image", "/", "png">>, 0)
BigFile   == UploadedFile(<<"d", ".", "jpg">>, <<"image", "/", "jpeg">>, max_bytes + 1)
TextFile  == UploadedFile(<<"e", ".", "txt">>, <<"text", "/", "plain">>, 1)

AllFiles == {ImageFile, VideoFile, BareFile, BigFile, TextFile}
FewFiles == {ImageFile}

\* The file lists of at most MaxBatch files.
Batches(fileset) == UNION { [1..k -> fileset] : k \in 0..MaxBatch }

\* The PIN of gallery g1 as stored (with a trailing blank) and the PINs a
\* client submits: none, the right one typed with blanks, a wrong one, and one
\* longer than the form allows.
StoredPin == <<"7", " ">>
LongPin == [i \in 1..(PinMaxLength + 1) |-> "7"]
AllPins == { <<>>, <<" ", "7">>, <<"8">>, LongPin }
FewPins == { <<"7">>, <<"8">> }

AllSortOrders == { None, Some(0), Some(2), Some(-1) }
FewSortOrders == { None }

Captions == { <<"h", "i", " ">> }

UploadRequests(pins, sort_orders, fileset) ==
    { Request("gallery_view", "POST", u, 0, pin, c, so, fs) :
        u \in Uuids, pin \in pins, c \in Captions, so \in sort_orders,
        fs \in Batches(fileset) }

GetRequests ==
    { Request("gallery_view", "GET", u, 0, <<>>, <<>>, None, <<>>) : u \in Uuids }

\* Deletions name any id the table has given out, or the next one (unknown).
DeleteRequests ==
    { Request("media_delete", method, u, id, <<>>, <<>>, None, <<>>) :
        method \in {"GET", "POST"}, u \in Uuids, id \in 1..next_id }

\* urls.py:6-7  the values a QR path carries: a gallery identifier, an
\* identifier of no gallery, or the token of a link that qr_preview rendered.
QrPathValues == Uuids \cup { qr_preview(tag).href[2] : tag \in QRTags }

QrRequests(view) ==
    { Request(view, "GET", u, 0, <<>>, <<>>, None, <<>>) : u \in QrPathValues }

\* ------------------------------------------------------------ the store

\* A store as earlier uploads leave it: gallery g2 holds one photo, gallery g1
\* holds k photos uploaded without a start value.
StoredItem(id, g, sort_order) == NewMediaItem(id, g, ImageFile, <<>>, sort_order)

StoreInit(k, opened) ==
    /\ gallery = [g \in Galleries |->
                    [ upload_pin |-> IF g = "g1" THEN StoredPin ELSE <<>>,
                      first_opened_at |-> opened ]]
    /\ media = {StoredItem(1, "g2", 0)}
               \cup { StoredItem(i + 1, "g1", i - 1) : i \in 1..k }
    /\ storage = 1..(k + 1)
    /\ next_id = k + 2
    /\ now = 1
    /\ rq = [p \in {1, 2} |-> Idle]

\* ------------------------------------------------- requests one at a time

Init == \E k \in 0..MediaLimit : StoreInit(k, None)

\* Worker 1 alone takes the requests, each when the one before it has been
\* answered; worker 2 stays idle.
Serial == rq[2].pc = "idle"

Next ==
    \/ Serial /\ \E req \in GetRequests \cup UploadRequests(FewPins, FewSortOrders, FewFiles) :
           gallery_view(1, req)
    \/ Serial /\ gallery_view_upload(1)
    \/ Serial /\ \E req \in DeleteRequests : media_delete(1, req)
    \/ Serial /\ \E req \in QrRequests("qrcode_image") : qrcode_image(1, req)
    \/ Serial /\ \E req \in QrRequests("qrcode_download") : qrcode_download(1, req)

Spec == Init /\ [][Next]_vars

\* ------------------------------------- one request, from any stored state

InitRequest ==
    \E k \in 0..MediaLimit, opened \in {None, Some(0)} : StoreInit(k, opened)

First == rq[1].pc = "idle" /\ rq[2].pc = "idle"

NextRequest ==
    \/ First /\ \E req \in GetRequests \cup UploadRequests(AllPins, AllSortOrders, AllFiles) :
           gallery_view(1, req)
    \/ Serial /\ gallery_view_upload(1)
    \/ First /\ \E req \in DeleteRequests : media_delete(1, req)

SpecRequest == InitRequest /\ [][NextRequest]_vars

\* ------------------------------------------ two uploads at the same time

\* Each worker takes one upload; the reading of the count (gallery_view) and
\* the writes (gallery_view_upload) of the two interleave freely.

NextConcurrent ==
    \/ \E p \in {1, 2} :
           rq[p].pc = "idle" /\
           \E req \in UploadRequests({<<"7">>}, FewSortOrders, {ImageFile, BigFile}) :
               gallery_view(p, req)
    \/ \E p \in {1, 2} : gallery_view_upload(p)

SpecConcurrent == Init /\ [][NextConcurrent]_vars

\* ================================================================ claims

\* The step takes a request in (every view ticks the clock once).
Received == now' = now + 1

\* The request worker 1 has in hand, or has answered last.
IsUpload(r) == r.req.view = "gallery_view" /\ r.req.method = "POST"

\* The response is the authorization failure: the PIN error message and the
\* redirect back to the gallery page.
AuthorizationFailure(r) ==
    /\ r.pc = "done"
    /\ r.status = "redirect"
    /\ r.msgs = << <<"error", "pin">> >>
    /\ r.created = <<>>

\* The upload PIN of gallery g trimmed, and whether the request's PIN,
\* trimmed, differs from it while it is not empty.
TrimmedPin(g) == Strip(gallery[g].upload_pin)

PinMismatch(req) ==
    /\ req.uuid \in Galleries
    /\ TrimmedPin(req.uuid) # <<>>
    /\ Strip(req.pin) # TrimmedPin(req.uuid)

NoRecordWritten ==
    /\ media' = media
    /\ storage' = storage
    /\ next_id' = next_id

\* C1 as stated: an upload whose trimmed PIN differs from the gallery's
\* non-empty trimmed PIN creates no MediaItem and ends in the authorization
\* failure (the error message and the redirect), whatever else it submits.
C1_AsStated ==
    [][ (Received /\ IsUpload(rq'[1]) /\ PinMismatch(rq'[1].req))
            => (NoRecordWritten /\ AuthorizationFailure(rq'[1])) ]_vars

\* C1 (amended): an upload whose trimmed PIN differs from the gallery's
\* non-empty trimmed PIN creates no MediaItem; it ends in the authorization
\* failure when the submitted form is valid (PIN at most 12 characters, start
\* value empty or not negative), and in the re-rendered page, without any
\* message, when the form is not valid.
C1_PinMismatchRejected ==
    [][ (Received /\ IsUpload(rq'[1]) /\ PinMismatch(rq'[1].req))
            => /\ NoRecordWritten
               /\ LET req == rq'[1].req
                      valid == /\ Len(Strip(req.pin)) <= 12
                               /\ (req.sort_order # None => req.sort_order[1] >= 0)
                  IN  IF valid THEN AuthorizationFailure(rq'[1])
                      ELSE /\ rq'[1].pc = "done"
                           /\ rq'[1].status = "render"
                           /\ rq'[1].msgs = <<>> ]_vars

\* C1 witness: a wrong PIN was submitted to gallery g1 with a valid photo in
\* the file list, and the request ended in the authorization failure.
C1_Witness ==
    /\ IsUpload(rq[1])
    /\ rq[1].req.uuid = "g1"
    /\ rq[1].req.pin = <<"8">>
    /\ \E i \in 1..Len(rq[1].req.files) : rq[1].req.files[i] = ImageFile
    /\ AuthorizationFailure(rq[1])

\* The request of worker 1 went through the loop over its files and is
\* answered.
UploadDone(r) == IsUpload(r) /\ r.pc = "done" /\ r.remaining > 0

\* The MediaItems a finished upload created, and for each the file of the
\* truncated list it was made from (the one at the item's sort position).
CreatedItems(r) ==
    { m \in media : \E i \in 1..Len(r.created) : m.id = r.created[i] }

SourceFile(r, m) == r.files[m.sort_order - r.base_order + 1]

DeclaredImage(f) == Len(f.content_type) >= 2 /\ f.content_type[1] = "image"
                    /\ f.content_type[2] = "/"
DeclaredVideo(f) == Len(f.content_type) >= 2 /\ f.content_type[1] = "video"
                    /\ f.content_type[2] = "/"

\* C2 as stated: every MediaItem an upload persists has kind "image" exactly
\* when the file's declared content type starts with "image/", kind "video"
\* exactly when it starts with "video/", and never kind "auto"; a file whose
\* declared type has neither prefix is not persisted.
C2_KindFollowsDeclaredType ==
    UploadDone(rq[1]) =>
        /\ \A m \in CreatedItems(rq[1]) :
              LET f == SourceFile(rq[1], m)
              IN  /\ (m.kind = "image") <=> DeclaredImage(f)
                  /\ (m.kind = "video") <=> DeclaredVideo(f)
                  /\ m.kind # "auto"
        /\ \A i \in 1..Len(rq[1].files) :
              (~DeclaredImage(rq[1].files[i]) /\ ~DeclaredVideo(rq[1].files[i]))
                  => ~\E m \in CreatedItems(rq[1]) :
                         m.sort_order = rq[1].base_order + i - 1

\* The step is the loop of an upload of worker 1, from its start to the answer.
UploadStep == rq[1].pc = "loop" /\ rq'[1].pc = "done"

\* C3: with requests handled one at a time, no gallery ever holds more than 5
\* MediaItems; the loop of an upload works on the first (5 - existing count)
\* files of the submitted list and creates no more items than that; and an
\* upload received when the gallery holds 5 items is answered at once,
\* without any write.
C3_NeverMoreThanFive ==
    [][ /\ \A g \in Galleries : Cardinality({ m \in media' : m.gallery = g }) <= 5
        /\ UploadStep =>
              LET g     == rq[1].req.uuid
                  count == Cardinality({ m \in media : m.gallery = g })
                  all   == rq[1].req.files
                  room  == 5 - count
              IN  /\ room >= 1
                  /\ rq[1].files = [i \in 1..(IF Len(all) < room THEN Len(all) ELSE room)
                                      |-> all[i]]
                  /\ Cardinality(media' \ media) <= room
                  /\ media \subseteq media'
        /\ (Received /\ IsUpload(rq'[1]) /\ rq'[1].req.uuid \in Galleries
              /\ Cardinality({ m \in media : m.gallery = rq'[1].req.uuid }) >= 5)
              => (NoRecordWritten /\ rq'[1].pc = "done") ]_vars

\* C3 witness: a list of 3 photos was uploaded to a gallery holding 4 items;
\* one item was created and the gallery holds 5.
C3_Witness ==
    /\ UploadDone(rq[1])
    /\ Len(rq[1].req.files) = 3
    /\ rq[1].existing = 4
    /\ Len(rq[1].created) = 1
    /\ MediaCount(rq[1].req.uuid) = 5

\* C4: two uploads to the same gallery that both read the existing count e
\* are not coordinated: each creates the valid files among the first (5 - e)
\* of its list and numbers them from its own base offset, whatever the other
\* has written, so the gallery ends with e plus both batches' items.
C4_UploadsNotCoordinated ==
    (UploadDone(rq[1]) /\ UploadDone(rq[2]) /\ rq[1].req.uuid = rq[2].req.uuid
        /\ rq[1].existing = rq[2].existing)
    => LET g    == rq[1].req.uuid
           e    == rq[1].existing
           good(r) == { i \in 1..Len(r.req.files) :
                          /\ i <= 5 - e
                          /\ r.req.files[i].size <= 100 * 1024 * 1024
                          /\ (DeclaredImage(r.req.files[i]) \/ DeclaredVideo(r.req.files[i])) }
           base(r) == IF r.req.sort_order # None THEN r.req.sort_order[1] ELSE e
       IN  /\ MediaCount(g) = e + Cardinality(good(rq[1])) + Cardinality(good(rq[2]))
           /\ \A p \in {1, 2} :
                 { m.sort_order : m \in CreatedItems(rq[p]) }
                     = { base(rq[p]) + i - 1 : i \in good(rq[p]) }

\* C4 witness: both uploads read the same count, and together they left more
\* than 5 items in the gallery, two of them with the same sort_order.
C4_Witness ==
    /\ UploadDone(rq[1]) /\ UploadDone(rq[2])
    /\ rq[1].req.uuid = rq[2].req.uuid
    /\ rq[1].existing = rq[2].existing
    /\ MediaCount(rq[1].req.uuid) > 5
    /\ \E m1 \in CreatedItems(rq[1]), m2 \in CreatedItems(rq[2]) :
          m1.sort_order = m2.sort_order

\* C5: with requests handled one at a time, a gallery_view request (GET or
\* POST) that finds first_opened_at unset sets it to the current time; once
\* set it never changes; and nothing but a gallery_view request for the
\* gallery changes it.
C5_FirstOpenedSetOnce ==
    [][ \A g \in Galleries :
          LET visit == Received /\ rq'[1].req.view = "gallery_view"
                                /\ rq'[1].req.uuid = g
          IN  /\ gallery[g].first_opened_at # <<>>
                    => gallery'[g].first_opened_at = gallery[g].first_opened_at
              /\ (visit /\ gallery[g].first_opened_at = <<>>)
                    => gallery'[g].first_opened_at = <<now>>
              /\ gallery'[g].first_opened_at # gallery[g].first_opened_at
                    => visit ]_vars

\* C5 witness: gallery g1 was opened by the first request, a second
\* gallery_view request for it has been answered, and the stamp is still the
\* first one.
C5_Witness ==
    /\ gallery["g1"].first_opened_at = <<1>>
    /\ now = 3
    /\ rq[1].pc = "done"
    /\ rq[1].req.view = "gallery_view"
    /\ rq[1].req.uuid = "g1"

\* The upload was rejected as a whole: for the PIN, for an empty file list,
\* or because the gallery is full.
Rejected(r) ==
    /\ IsUpload(r)
    /\ r.pc = "done"
    /\ r.status = "redirect"
    /\ r.msgs \in { << <<"error", "pin">> >>, << <<"error", "no_files">> >>,
                    << <<"error", "limit">> >> }

\* C6 as stated: a rejected upload leaves every persisted record, the Gallery
\* row and the MediaItems, as it was.
C6_AsStated ==
    [][ (Received /\ Rejected(rq'[1]))
            => (gallery' = gallery /\ media' = media /\ storage' = storage) ]_vars

\* C6 (amended): a rejected upload writes no MediaItem and no file, and leaves
\* the Gallery rows as they were except for first_opened_at of the gallery
\* it names, which it sets to the current time if it was unset.
C6_RejectedWritesOnlyStamp ==
    [][ (Received /\ Rejected(rq'[1]))
            => /\ NoRecordWritten
               /\ \A g \in Galleries :
                     /\ gallery'[g].upload_pin = gallery[g].upload_pin
                     /\ gallery'[g].first_opened_at =
                           IF g = rq'[1].req.uuid /\ gallery[g].first_opened_at = <<>>
                           THEN <<now>> ELSE gallery[g].first_opened_at ]_vars

\* C6 witness: an upload to a full gallery not opened before was rejected,
\* and the request stamped the gallery.
C6_Witness ==
    /\ Rejected(rq[1])
    /\ rq[1].msgs = << <<"error", "limit">> >>
    /\ MediaCount(rq[1].req.uuid) = 5
    /\ gallery[rq[1].req.uuid].first_opened_at = <<now - 1>>

\* What the loop of worker 1's upload is to do, read off the request and the
\* store before the step: the positions of the capacity-truncated list whose
\* file is within the size limit and declared an image or a video, and the
\* base offset.
TruncatedLength ==
    LET room == 5 - Cardinality({ m \in media : m.gallery = rq[1].req.uuid })
    IN  IF Len(rq[1].req.files) < room THEN Len(rq[1].req.files) ELSE room

GoodPositions ==
    { i \in 1..TruncatedLength :
        /\ rq[1].req.files[i].size <= 100 * 1024 * 1024
        /\ (DeclaredImage(rq[1].req.files[i]) \/ DeclaredVideo(rq[1].req.files[i])) }

BaseOffset ==
    IF rq[1].req.sort_order # <<>> THEN rq[1].req.sort_order[1]
    ELSE Cardinality({ m \in media : m.gallery = rq[1].req.uuid })

\* C7: the loop of an upload creates exactly one MediaItem for each file of
\* the capacity-truncated list that is at most 100 x 1024 x 1024 bytes and
\* declared "image/..." or "video/...", in the named gallery and from that
\* file; every other file of the list is counted as an error and creates
\* nothing; no existing item is removed.
C7_ExactlyTheValidFiles ==
    [][ UploadStep =>
          LET g   == rq[1].req.uuid
              new == media' \ media
          IN  /\ media \subseteq media'
              /\ Cardinality(new) = Cardinality(GoodPositions)
              /\ \A i \in GoodPositions :
                    \E m \in new :
                        /\ m.gallery = g
                        /\ m.sort_order = BaseOffset + i - 1
                        /\ m.file = <<"uploads", "/", g, "/">> \o rq[1].req.files[i].name
                        /\ m.file_size = rq[1].req.files[i].size
              /\ Len(rq'[1].created) = Cardinality(GoodPositions)
              /\ rq'[1].errors = TruncatedLength - Cardinality(GoodPositions) ]_vars

\* C7 witness: a list with a text file, a video of exactly the maximum size
\* and an oversized photo was uploaded; the video alone was created.
C7_Witness ==
    /\ UploadDone(rq[1])
    /\ rq[1].files = <<TextFile, VideoFile, BigFile>>
    /\ Len(rq[1].created) = 1
    /\ rq[1].errors = 2
    /\ \E m \in CreatedItems(rq[1]) : m.file_size = max_bytes

\* C8: the MediaItems one upload creates have sort_order = base offset (the
\* submitted start value if there is one, else the gallery's media count at
\* the start of the request) + the file's position in the truncated list
\* (from 0), so they increase strictly in creation order; 3 valid files into
\* an empty gallery without a start value get 0, 1, 2.
C8_SortOrderFromBase ==
    [][ UploadStep =>
          LET new == media' \ media
          IN  /\ { m.sort_order : m \in new }
                    = { BaseOffset + i - 1 : i \in GoodPositions }
              /\ \A m1, m2 \in new :
                    m1.id < m2.id => m1.sort_order < m2.sort_order
              /\ (BaseOffset = 0 /\ rq[1].req.sort_order = <<>>
                    /\ GoodPositions = {1, 2, 3})
                    => { m.sort_order : m \in new } = {0, 1, 2} ]_vars

\* C8 witness: 3 valid files were uploaded to an empty gallery without a
\* start value and got the sort orders 0, 1, 2.
C8_Witness ==
    /\ UploadDone(rq[1])
    /\ rq[1].existing = 0
    /\ rq[1].req.sort_order = <<>>
    /\ Len(rq[1].req.files) = 3
    /\ Len(rq[1].created) = 3
    /\ { m.sort_order : m \in CreatedItems(rq[1]) } = {0, 1, 2}

\* A batch-level message: the success or the batch-level failure.
IsBatchLevel(msg) == msg[1] \in {"success", "error"}

\* C9: an upload that passes the form, PIN, empty-list and capacity checks
\* reaches the loop, and the loop ends with exactly one batch-level message:
\* the success with the number of created items if it created any, the
\* batch-level failure if it created none.
C9_OneBatchOutcome ==
    [][ /\ (Received /\ IsUpload(rq'[1]) /\ rq'[1].req.uuid \in Galleries
               /\ Len(Strip(rq'[1].req.pin)) <= 12
               /\ (rq'[1].req.sort_order # <<>> => rq'[1].req.sort_order[1] >= 0)
               /\ ~PinMismatch(rq'[1].req)
               /\ rq'[1].req.files # <<>>
               /\ Cardinality({ m \in media : m.gallery = rq'[1].req.uuid }) < 5)
              => rq'[1].pc = "loop"
        /\ UploadStep =>
              LET made == Cardinality(media' \ media)
              IN  /\ rq'[1].status = "redirect"
                  /\ SelectSeq(rq'[1].msgs, IsBatchLevel) =
                        IF made > 0 THEN << <<"success", "uploaded", made>> >>
                        ELSE << <<"error", "none_uploaded">> >> ]_vars

\* C9 witness: an oversized file and a valid photo were uploaded; one item
\* was created, one warning queued, and the batch reports success with 1.
C9_Witness ==
    /\ UploadDone(rq[1])
    /\ rq[1].files = <<BigFile, ImageFile>>
    /\ rq[1].msgs = << <<"warning", "size", BigFile.name>>,
                       <<"success", "uploaded", 1>> >>

\* C10: media_delete deletes the MediaItem with the given id when the request
\* is a POST and the item belongs to the named gallery, whether or not the
\* stored file could be removed, and answers with the redirect; in every
\* other case (another method, an unknown gallery, an unknown id, an item of
\* another gallery) it answers NotFound and deletes nothing. No other request
\* removes a MediaItem.
C10_DeleteOnlyOwnItemOnPost ==
    [][ /\ (Received /\ rq'[1].req.view = "media_delete") =>
              LET req == rq'[1].req
                  hit == { m \in media : m.id = req.item_id /\ m.gallery = req.uuid }
              IN  IF req.method = "POST" /\ req.uuid \in Galleries /\ hit # {}
                  THEN /\ media' = media \ hit
                       /\ storage' \in { storage, storage \ {req.item_id} }
                       /\ rq'[1].status = "redirect"
                  ELSE /\ media' = media
                       /\ storage' = storage
                       /\ rq'[1].status = "404"
        /\ ~(media \subseteq media')
              => (Received /\ rq'[1].req.view = "media_delete"
                           /\ rq'[1].req.method = "POST") ]_vars

\* C10 witness: a POST deleted an item of the named gallery although its
\* stored file could not be removed: the record is gone, the file is not.
C10_Witness ==
    /\ rq[1].pc = "done"
    /\ rq[1].req.view = "media_delete"
    /\ rq[1].status = "redirect"
    /\ ~\E m \in media : m.id = rq[1].req.item_id
    /\ rq[1].req.item_id \in storage

\* The answer of a QR endpoint is the PNG of the QR code of /g/<g>.
QrImageOf(r, g) ==
    /\ r.status = "png"
    /\ r.body[1] = "url"
    /\ r.body[2] = <<"/g/", g>>

\* C11 as stated: the QR image and QR download endpoints accept a QRTag token
\* or a gallery identifier: a request carrying the token of an existing tag
\* returns the QR image of the public URL of the tag's gallery, a request
\* carrying the identifier of an existing gallery returns the QR image of that
\* gallery's public URL, and the answer is NotFound only when the value is
\* neither a token nor a gallery identifier.
C11_TokenOrIdentifierResolves ==
    (rq[1].pc = "done" /\ rq[1].req.view \in {"qrcode_image", "qrcode_download"})
        => /\ \A tag \in { [gallery |-> "g1", token |-> "t1"],
                            [gallery |-> "g2", token |-> "t2"] } :
                 rq[1].req.uuid = tag.token => QrImageOf(rq[1], tag.gallery)
           /\ \A g \in {"g1", "g2"} :
                 rq[1].req.uuid = g => QrImageOf(rq[1], g)
           /\ rq[1].status = "404"
                 => rq[1].req.uuid \notin {"t1", "t2", "g1", "g2"}

====
